---- MODULE Spec2Model ----
(***************************************************************************)
(* Model of .scripts/verify/src/main.rs: the build-and-verify pipeline of  *)
(* stellar-contract-verifications.  main() is one linear run; each action  *)
(* below is one step of it, in program order, and pc is the position.      *)
(*                                                                         *)
(* Strings are sequences of one-character strings, so that split, format,  *)
(* parse and hex encoding are computed rather than assumed.  Option<T> is  *)
(* a sequence of length 0 (None) or 1 (Some).                              *)
(***************************************************************************)
EXTENDS Integers, Sequences, FiniteSets, TLC

\* Largest number of items of the metadata JSON array that is enumerated.
MaxEntries == 2

None == <<>>
Some(x) == <<x>>
IsSome(o) == Len(o) = 1
Unwrap(o) == o[1]

(***************************************************************************)
(* str::split(sep): the pieces between separators; always at least one.    *)
(***************************************************************************)
RECURSIVE SplitFrom(_, _, _, _)
SplitFrom(s, sep, i, cur) ==
    IF i > Len(s) THEN <<cur>>
    ELSE IF s[i] = sep THEN <<cur>> \o SplitFrom(s, sep, i + 1, <<>>)
    ELSE SplitFrom(s, sep, i + 1, Append(cur, s[i]))

Split(s, sep) == SplitFrom(s, sep, 1, <<>>)

\* format!("{}.{}", a, b)
FormatVersion(a, b) == a \o <<".">> \o b

(***************************************************************************)
(* str::parse::<f32>() on the strings the model draws: decimal digits with *)
(* at most one '.', digits on at least one side.  The value is rounded to  *)
(* the nearest f32 (24-bit significand, ties to even).  A positive f32 is  *)
(* [m, s] with 2^23 <= m < 2^24 and value m / 2^s; zero is [m |-> 0].      *)
(* The alphabet has no sign, exponent, "inf" or "nan", and integral parts  *)
(* stay below 2^24, so those branches of the parser are not modelled.      *)
(***************************************************************************)
DigitChars == <<"0", "1", "2", "3", "4", "5", "6", "7", "8", "9">>
IsDigit(c) == \E i \in 1..10 : DigitChars[i] = c
DigitVal(c) == (CHOOSE i \in 1..10 : DigitChars[i] = c) - 1
AllDigits(s) == \A i \in 1..Len(s) : IsDigit(s[i])

RECURSIVE DecVal(_)
DecVal(s) == IF s = <<>> THEN 0
             ELSE 10 * DecVal(SubSeq(s, 1, Len(s) - 1)) + DigitVal(s[Len(s)])

RECURSIVE Pow10(_)
Pow10(k) == IF k = 0 THEN 1 ELSE 10 * Pow10(k - 1)

RECURSIVE F32Shift(_, _, _, _)
F32Shift(m, r, d, s) ==
    IF m >= 2^23 THEN [m |-> m, r |-> r, s |-> s]
    ELSE IF 2 * r >= d THEN F32Shift(2 * m + 1, 2 * r - d, d, s + 1)
    ELSE F32Shift(2 * m, 2 * r, d, s + 1)

F32Round(n, d) ==
    IF n = 0 THEN [m |-> 0, s |-> 0]
    ELSE LET x  == F32Shift(n \div d, n % d, d, 0)
             up == 2 * x.r > d \/ (2 * x.r = d /\ x.m % 2 = 1)
             m  == IF up THEN x.m + 1 ELSE x.m
         IN  IF m = 2^24 THEN [m |-> 2^23, s |-> x.s - 1]
             ELSE [m |-> m, s |-> x.s]

ParseF32(str) ==
    LET p == Split(str, ".")
    IN  IF Len(p) = 1 /\ p[1] # <<>> /\ AllDigits(p[1])
        THEN Some(F32Round(DecVal(p[1]), 1))
        ELSE IF /\ Len(p) = 2
                /\ AllDigits(p[1]) /\ AllDigits(p[2])
                /\ p[1] \o p[2] # <<>>
        THEN Some(F32Round(DecVal(p[1] \o p[2]), Pow10(Len(p[2]))))
        ELSE None

\* a > b on f32 values
F32Gt(a, b) ==
    IF a.m = 0 THEN FALSE
    ELSE IF b.m = 0 THEN TRUE
    ELSE a.s < b.s \/ (a.s = b.s /\ a.m > b.m)

\* the literal 1.84 of the comparison, as f32
Threshold == F32Round(184, 100)

SelectTarget(version) ==
    IF F32Gt(version, Threshold) THEN "wasm32v1-none"
    ELSE "wasm32-unknown-unknown"

(***************************************************************************)
(* Metadata document.  A response is a network error, an unparsable body,  *)
(* or a JSON value; an array item carries an optional "sc_meta_v0" object  *)
(* whose "key" and "val" are Some(..) when present and of string type.     *)
(***************************************************************************)
RECURSIVE ScanRsver(_, _)
ScanRsver(items, i) ==
    IF i > Len(items) THEN <<>>
    ELSE LET item == items[i]
         IN  IF /\ IsSome(item.meta)
                /\ Unwrap(item.meta).key = Some("rsver")
                /\ IsSome(Unwrap(item.meta).val)
             THEN Unwrap(Unwrap(item.meta).val)
             ELSE ScanRsver(items, i + 1)

\* variant of FindRsver: the loop without its break keeps the last match
RECURSIVE ScanRsverLast(_, _, _)
ScanRsverLast(items, i, found) ==
    IF i > Len(items) THEN found
    ELSE LET item == items[i]
         IN  IF /\ IsSome(item.meta)
                /\ Unwrap(item.meta).key = Some("rsver")
                /\ IsSome(Unwrap(item.meta).val)
             THEN ScanRsverLast(items, i + 1, Unwrap(Unwrap(item.meta).val))
             ELSE ScanRsverLast(items, i + 1, found)

FindRsverLast(json) ==
    IF json.type = "array" THEN ScanRsverLast(json.items, 1, <<>>) ELSE <<>>

\* the loop of lines 35-47: "" unless the value is an array with a match
FindRsver(json) ==
    IF json.type = "array" THEN ScanRsver(json.items, 1) ELSE <<>>

(***************************************************************************)
(* Paths are sequences of components; "/" as the first component marks an  *)
(* absolute path.  Normalize is the lexical resolution of "." and ".."     *)
(* that the operating system performs on a path without symbolic links.    *)
(***************************************************************************)
code_path == <<"code">>
wasm_path == <<"wasm">>

PathJoin(base, p) == IF p # <<>> /\ p[1] = "/" THEN p ELSE base \o p

RECURSIVE NormalizeFrom(_, _, _)
NormalizeFrom(p, i, acc) ==
    IF i > Len(p) THEN acc
    ELSE IF p[i] = "." THEN NormalizeFrom(p, i + 1, acc)
    ELSE IF p[i] = ".." THEN
        IF acc = <<>> \/ acc[Len(acc)] = ".."
        THEN NormalizeFrom(p, i + 1, Append(acc, ".."))
        ELSE IF acc[Len(acc)] = "/" THEN NormalizeFrom(p, i + 1, acc)
        ELSE NormalizeFrom(p, i + 1, SubSeq(acc, 1, Len(acc) - 1))
    ELSE NormalizeFrom(p, i + 1, Append(acc, p[i]))

Normalize(p) == NormalizeFrom(p, 1, <<>>)

\* where "--out-dir ../wasm/" lands for a build run with current_dir(dir)
BuildOutDir(dir) == Normalize(PathJoin(code_path, dir) \o <<"..", "wasm">>)

(***************************************************************************)
(* hex::encode: two lower-case hexadecimal characters per byte.            *)
(***************************************************************************)
HexChars == <<"0", "1", "2", "3", "4", "5", "6", "7",
              "8", "9", "a", "b", "c", "d", "e", "f">>

RECURSIVE HexEncode(_)
HexEncode(bytes) ==
    IF bytes = <<>> THEN <<>>
    ELSE <<HexChars[(bytes[1] \div 16) + 1], HexChars[(bytes[1] % 16) + 1]>>
         \o HexEncode(Tail(bytes))

LowerChar(c) ==
    CASE c = "A" -> "a" [] c = "B" -> "b" [] c = "C" -> "c"
      [] c = "D" -> "d" [] c = "E" -> "e" [] c = "F" -> "f"
      [] OTHER -> c

Lower(str) == [i \in 1..Len(str) |-> LowerChar(str[i])]

\* variant of HashEq: eq_ignore_ascii_case
HashEqIgnoreCase(hash_str, expected) == Lower(hash_str) = Lower(expected)

\* hash_str == args.hash, String equality
HashEq(hash_str, expected) == hash_str = expected

\* variant of OtherVariant: the fallback names the variant already used
OtherVariantSame(used_file) == used_file

\* line 219
OtherVariant(used_file) ==
    IF used_file = "unoptimized" THEN "optimized" ELSE "unoptimized"

\* std::process::ExitStatus
Success(status) == status.code = Some(0)

\* variant of CodeOr1: the code of the tool is dropped
CodeAlways1(status) == 1

\* status.code().unwrap_or(1)
CodeOr1(status) == IF IsSome(status.code) THEN Unwrap(status.code) ELSE 1

\* variant of ValidRepo: only too few components are rejected
ValidRepoAtLeast2(parts) == Len(parts) >= 2

\* parts.len() != 2 is the rejection of line 97
ValidRepo(parts) == Len(parts) = 2

(***************************************************************************)
(* Hash Verifier, lines 181-266, as a function of what the two reads give  *)
(* (Some(digest bytes) of a readable file, None of an unreadable one) and  *)
(* of args.hash.  report is the pair printed by the error! of line 261.    *)
(***************************************************************************)
ReadVariant(variant, unopt, opt) ==
    IF variant = "unoptimized" THEN unopt ELSE opt

VerifyRun(unopt, opt, expected) ==
    IF ~IsSome(unopt) /\ ~IsSome(opt)
    THEN [code |-> 1, used |-> "none", report |-> None]
    ELSE
    LET used_file == IF IsSome(unopt) THEN "unoptimized" ELSE "optimized"
        hash_str  == HexEncode(Unwrap(ReadVariant(used_file, unopt, opt)))
    IN  IF HashEq(hash_str, expected)
        THEN [code |-> 0, used |-> used_file, report |-> None]
        ELSE
        LET other_variant == OtherVariant(used_file)
            other_bytes   == ReadVariant(other_variant, unopt, opt)
        IN  IF /\ IsSome(other_bytes)
               /\ HashEq(HexEncode(Unwrap(other_bytes)), expected)
            THEN [code |-> 0, used |-> other_variant, report |-> None]
            ELSE [code |-> 1, used |-> used_file,
                  report |-> Some([unoptimized |-> Some(hash_str),
                                   optimized |->
                                       IF IsSome(other_bytes)
                                       THEN Some(HexEncode(Unwrap(other_bytes)))
                                       ELSE None])]

(***************************************************************************)
(* Inputs.                                                                 *)
(***************************************************************************)
Repos == { <<"o", "/", "r">>, <<"o", "r">>, <<"o", "/", "r", "/", "x">> }

Hashes == { <<"a", "b">>, <<"A", "B">>, <<"1", "a">>, <<"0", "0">> }

Dirs == { <<".">>, <<"contracts">>, <<"contracts", "token">>, <<"..">> }

\* digests of artifact contents (one byte stands for the 32 of SHA-256)
Digests == { <<171>>, <<26>> }

Toolchains ==
    { <<>>,
      <<"a", "b", "c">>,
      <<"a", ".", "b", ".", "c">>,
      <<"1", ".", "8", "0", ".", "0">>,
      <<"1", ".", "8", "4", ".", "0">>,
      <<"1", ".", "8", "5", ".", "0">>,
      <<"1", ".", "9", ".", "0">>,
      <<"1", ".", "1", "0", "0", ".", "0">>,
      <<"2", ".", "0", ".", "0">> }

Items ==
    { [meta |-> None],
      [meta |-> Some([key |-> Some("rsver"), val |-> None])],
      [meta |-> Some([key |-> Some("rssdkver"),
                      val |-> Some(<<"2", "2", ".", "0", ".", "0">>)])] }
    \cup { [meta |-> Some([key |-> Some("rsver"), val |-> Some(t)])] :
           t \in Toolchains }

SeqUpTo(S, n) == UNION { [1..k -> S] : k \in 0..n }

JsonValues ==
    { [type |-> "object", items |-> <<>>] }
    \cup { [type |-> "array", items |-> a] : a \in SeqUpTo(Items, MaxEntries) }

Responses ==
    { [ok |-> FALSE, body |-> None], [ok |-> TRUE, body |-> None] }
    \cup { [ok |-> TRUE, body |-> Some(j)] : j \in JsonValues }

\* outcome of running an external command: not spawned (io error), or an
\* ExitStatus whose code is None when a signal ended the process
Statuses ==
    { [spawned |-> FALSE, code |-> None], [spawned |-> TRUE, code |-> None] }
    \cup { [spawned |-> TRUE, code |-> Some(c)] : c \in {0, 1, 2} }

EntryNames == { "w", "src", "Cargo.toml" }

\* what archive.unpack leaves in code/: the top-level names, whether the
\* single entry (if single) is a directory, and that directory's entries
Unpacked ==
    { [top |-> {"w"}, isDir |-> TRUE, inside |-> i] : i \in SUBSET EntryNames }
    \cup { [top |-> {"w"}, isDir |-> FALSE, inside |-> {}],
           [top |-> {"src", "Cargo.toml"}, isDir |-> FALSE, inside |-> {}],
           [top |-> {}, isDir |-> FALSE, inside |-> {}] }

PipelineOrder == << "metadata", "install", "target_add", "download",
                    "extract", "build", "optimize", "verify" >>

VARIABLES
    args,        \* Args: repo, hash, dir
    pc,          \* position in main
    steps,       \* the pipeline steps started so far, in order
    failed,      \* "none", or what failed
    exitCode,    \* None while running, Some(code) once the process has ended
    response,    \* Some(metadata response) while json is live
    toolchain,   \* the String toolchain
    target,      \* Some(target) once chosen at line 68
    status,      \* Some(ExitStatus) of the last external command run
    outDir,      \* Some(path the build tool was told to write into)
    top,         \* names directly under code/
    extracted,   \* Some(name) of extracted_dir while it is being emptied
    inside,      \* names still inside extracted_dir
    wrapped,     \* Some(entries the single top-level directory came with)
    unopt,       \* Some(digest) of wasm/<package>.wasm when readable
    opt,         \* Some(digest) of wasm/<package>.optimized.wasm when readable
    verdict      \* Some(VerifyRun result) once the Hash Verifier has run

vars == << args, pc, steps, failed, exitCode, response, toolchain, target,
           status, outDir, top, extracted, inside, wrapped, unopt, opt,
           verdict >>

metaVars  == << response, toolchain >>
toolVars  == << target, status, outDir >>
codeVars  == << top, extracted, inside, wrapped >>
wasmVars  == << unopt, opt, verdict >>

Init ==
    /\ args \in [repo : Repos, hash : Hashes, dir : Dirs]
    /\ pc = "fetch_metadata"
    /\ steps = <<>>
    /\ failed = "none"
    /\ exitCode = None
    /\ response = None
    /\ toolchain = <<>>
    /\ target = None
    /\ status = None
    /\ outDir = None
    /\ top = {}
    /\ extracted = None
    /\ inside = {}
    /\ wrapped = None
    /\ unopt = None
    /\ opt = None
    /\ verdict = None

\* process::exit(code), or main returning Err (exit status 1)
Abort(what, code) ==
    /\ pc' = "exit"
    /\ failed' = what
    /\ exitCode' = Some(code)

Goto(next) ==
    /\ pc' = next
    /\ UNCHANGED << failed, exitCode >>

(***************************************************************************)
(* Lines 30-52: fetch and parse the metadata, find the toolchain version.  *)
(* A network error or an unparsable body leaves main through `?`.          *)
(***************************************************************************)
FetchMetadata ==
    /\ pc = "fetch_metadata"
    /\ steps' = Append(steps, "metadata")
    /\ \E r \in Responses :
        /\ response' = Some(r)
        /\ IF ~r.ok \/ ~IsSome(r.body)
           THEN toolchain' = <<>> /\ Abort("metadata", 1)
           ELSE /\ toolchain' = FindRsver(Unwrap(r.body))
                /\ IF toolchain' = <<>>
                   THEN Abort("metadata", 1)
                   ELSE Goto("install")
    /\ UNCHANGED << args, toolVars, codeVars, wasmVars >>

\* variant of InstallToolchain: the failure is logged but the process goes on
InstallToolchainNoExit ==
    /\ pc = "install"
    /\ steps' = Append(steps, "install")
    /\ response' = None
    /\ \E st \in Statuses :
        /\ status' = Some(st)
        /\ pc' = "add_target"
        /\ failed' = IF st.spawned /\ Success(st) THEN "none" ELSE "install"
        /\ UNCHANGED exitCode
    /\ UNCHANGED << args, toolchain, target, outDir, codeVars, wasmVars >>

(***************************************************************************)
(* Lines 54-62: rustup install <toolchain>.  json is dead from here on.    *)
(***************************************************************************)
InstallToolchain ==
    /\ pc = "install"
    /\ steps' = Append(steps, "install")
    /\ response' = None
    /\ \E st \in Statuses :
        /\ status' = Some(st)
        /\ IF st.spawned /\ Success(st)
           THEN Goto("add_target")
           ELSE Abort("install", 1)
    /\ UNCHANGED << args, toolchain, target, outDir, codeVars, wasmVars >>

(***************************************************************************)
(* Lines 64-89: choose the target from major.minor parsed as f32, then     *)
(* rustup target add <target> --toolchain <toolchain>.                     *)
(***************************************************************************)
AddTarget ==
    /\ pc = "add_target"
    /\ LET version_parts == Split(toolchain, ".")
       IN  IF Len(version_parts) >= 2
           THEN LET version_str == FormatVersion(version_parts[1],
                                                 version_parts[2])
                    version     == ParseF32(version_str)
                IN  IF IsSome(version)
                    THEN /\ target' = Some(SelectTarget(Unwrap(version)))
                         /\ steps' = Append(steps, "target_add")
                         /\ \E st \in Statuses :
                             /\ status' = Some(st)
                             /\ IF st.spawned /\ Success(st)
                                THEN Goto("download")
                                ELSE Abort("target_add", 1)
                    ELSE /\ Abort("version_parse", 1)
                         /\ UNCHANGED << target, steps, status >>
           ELSE /\ Abort("version_format", 1)
                /\ UNCHANGED << target, steps, status >>
    /\ UNCHANGED << args, metaVars, outDir, codeVars, wasmVars >>

(***************************************************************************)
(* Lines 91-110: validate --repo, then download the archive.               *)
(***************************************************************************)
DownloadArchive ==
    /\ pc = "download"
    /\ LET parts == Split(args.repo, "/")
       IN  IF ~ValidRepo(parts)
           THEN Abort("repo", 1) /\ UNCHANGED steps
           ELSE /\ steps' = Append(steps, "download")
                /\ \E ok \in BOOLEAN :
                       IF ok THEN Goto("extract") ELSE Abort("download", 1)
    /\ UNCHANGED << args, metaVars, toolVars, codeVars, wasmVars >>

(***************************************************************************)
(* Lines 112-131: create code/, unpack, list code/.  With exactly one      *)
(* entry that is a directory the loop of lines 132-136 follows.            *)
(***************************************************************************)
ExtractArchive ==
    /\ pc = "extract"
    /\ steps' = Append(steps, "extract")
    /\ \/ /\ Abort("extract", 1)
          /\ UNCHANGED codeVars
       \/ \E u \in Unpacked :
            /\ top' = u.top
            /\ IF Cardinality(u.top) = 1 /\ u.isDir
               THEN /\ extracted' = Some(CHOOSE n \in u.top : TRUE)
                    /\ inside' = u.inside
                    /\ wrapped' = Some(u.inside)
                    /\ Goto("move")
               ELSE /\ UNCHANGED << extracted, inside, wrapped >>
                    /\ Goto("build")
    /\ UNCHANGED << args, metaVars, toolVars, wasmVars >>

(***************************************************************************)
(* Lines 132-136, one iteration: read_dir yields the entries in no         *)
(* particular order.  The only name code/ can already hold is that of      *)
(* extracted_dir itself, a directory that contains the entry being moved,  *)
(* onto which rename(2) fails.                                             *)
(***************************************************************************)
MoveEntry ==
    /\ pc = "move"
    /\ \E entry \in inside :
          IF entry \in top
          THEN /\ Abort("extract", 1)
               /\ UNCHANGED << top, inside >>
          ELSE /\ top' = top \cup {entry}
               /\ inside' = inside \ {entry}
               /\ Goto("move")
    /\ UNCHANGED << args, steps, metaVars, toolVars, extracted, wrapped,
                    wasmVars >>

\* Line 137: remove_dir(extracted_dir) once the loop has ended.
RemoveExtractedDir ==
    /\ pc = "move"
    /\ inside = {}
    /\ top' = top \ {Unwrap(extracted)}
    /\ extracted' = None
    /\ Goto("build")
    /\ UNCHANGED << args, steps, metaVars, toolVars, inside, wrapped,
                    wasmVars >>

(***************************************************************************)
(* Lines 143-162: stellar contract build, run in code/<dir> with           *)
(* --out-dir ../wasm/.  The tool is opaque: on success the unoptimized     *)
(* artifact is readable with some digest, or is not there.                 *)
(***************************************************************************)
Build ==
    /\ pc = "build"
    /\ steps' = Append(steps, "build")
    /\ \E st \in Statuses :
        /\ status' = Some(st)
        /\ outDir' = IF st.spawned THEN Some(BuildOutDir(args.dir)) ELSE None
        /\ IF ~st.spawned
           THEN Abort("build", 1) /\ UNCHANGED unopt
           ELSE IF ~Success(st)
           THEN Abort("build", CodeOr1(st)) /\ UNCHANGED unopt
           ELSE /\ unopt' \in {None} \cup { Some(d) : d \in Digests }
                /\ Goto("optimize")
    /\ UNCHANGED << args, metaVars, target, codeVars, opt, verdict >>

(***************************************************************************)
(* Lines 164-179: stellar contract optimize --wasm wasm/<package>.wasm.    *)
(***************************************************************************)
Optimize ==
    /\ pc = "optimize"
    /\ steps' = Append(steps, "optimize")
    /\ \E st \in Statuses :
        /\ status' = Some(st)
        /\ IF ~st.spawned
           THEN Abort("optimize", 1) /\ UNCHANGED opt
           ELSE IF ~Success(st)
           THEN Abort("optimize", CodeOr1(st)) /\ UNCHANGED opt
           ELSE /\ opt' \in {None} \cup { Some(d) : d \in Digests }
                /\ Goto("verify")
    /\ UNCHANGED << args, metaVars, target, outDir, codeVars, unopt, verdict >>

(***************************************************************************)
(* Lines 181-266: read, digest, compare, fall back; the process ends.      *)
(***************************************************************************)
Verify ==
    /\ pc = "verify"
    /\ steps' = Append(steps, "verify")
    /\ LET v == VerifyRun(unopt, opt, args.hash)
       IN  /\ verdict' = Some(v)
           /\ pc' = "exit"
           /\ exitCode' = Some(v.code)
           /\ failed' = IF v.code = 0 THEN "none" ELSE "verify"
    /\ UNCHANGED << args, metaVars, toolVars, codeVars, unopt, opt >>

Next ==
    \/ FetchMetadata
    \/ InstallToolchain
    \/ AddTarget
    \/ DownloadArchive
    \/ ExtractArchive
    \/ MoveEntry
    \/ RemoveExtractedDir
    \/ Build
    \/ Optimize
    \/ Verify

Spec == Init /\ [][Next]_vars

(***************************************************************************)
(* Properties.                                                             *)
(***************************************************************************)
HexOf(file) == IF IsSome(file) THEN Some(HexEncode(Unwrap(file))) ELSE None

Verified == IsSome(verdict)

SomeVariantMatches ==
    \E file \in {unopt, opt} : IsSome(file) /\ Unwrap(HexOf(file)) = args.hash

MatchesButForCase(file) ==
    /\ IsSome(file)
    /\ Unwrap(HexOf(file)) # args.hash
    /\ Lower(Unwrap(HexOf(file))) = Lower(args.hash)

\* C1: once the Hash Verifier has run, the process has ended, with exit code
\* 0 if and only if a readable variant's digest, hex-encoded, equals the
\* expected hash, and with a non-zero code otherwise.
C1_SuccessIffSomeVariantMatches ==
    Verified =>
        /\ pc = "exit"
        /\ IsSome(exitCode)
        /\ exitCode = Some(0) <=> SomeVariantMatches
        /\ ~SomeVariantMatches => Unwrap(exitCode) # 0

\* C1 witness: both readable, only the optimized one matches, success.
C1_FallbackSucceeds ==
    /\ Verified
    /\ IsSome(unopt) /\ Unwrap(HexOf(unopt)) # args.hash
    /\ IsSome(opt) /\ Unwrap(HexOf(opt)) = args.hash
    /\ exitCode = Some(0)
    /\ Unwrap(verdict).used = "optimized"

\* C2 as stated: an expected hash that differs from a readable variant's
\* digest only in the case of its hex letters is accepted (exit code 0).
C2_CaseInsensitiveAccepted ==
    (Verified /\ \E file \in {unopt, opt} : MatchesButForCase(file))
        => exitCode = Some(0)

\* C2 amended: the comparison is exact; when the expected hash differs from
\* a variant's digest only in letter case, neither the primary nor the
\* fallback comparison accepts it and the process exits with 1.
C2_CaseDifferenceRejected ==
    (Verified /\ \E file \in {unopt, opt} : MatchesButForCase(file))
        => exitCode = Some(1)

\* C2 witness: both variants readable, the fallback one equal to the
\* expected hash but for case, and the run failed.
C2_UpperCaseHashFails ==
    /\ Verified
    /\ IsSome(unopt)
    /\ MatchesButForCase(opt)
    /\ exitCode = Some(1)

RepoRejected == ~(Len(Split(args.repo, "/")) = 2)

Started(step) == \E i \in 1..Len(steps) : steps[i] = step

\* C3 as stated: with a --repo that is not two slash-separated components,
\* no metadata fetch, toolchain installation or archive download happens.
C3_NoNetworkBeforeRepoCheck ==
    RepoRejected =>
        ~Started("metadata") /\ ~Started("install") /\ ~Started("download")

\* C3 amended: such a --repo is rejected before the archive download: no
\* download, extraction, build, optimization or verification is started,
\* the run never succeeds, and the rejection itself comes after the
\* metadata fetch, the installation and the target addition, with exit 1.
C3_RejectedBeforeDownload ==
    RepoRejected =>
        /\ \A step \in {"download", "extract", "build", "optimize", "verify"} :
               ~Started(step)
        /\ exitCode # Some(0)
        /\ pc \notin {"extract", "move", "build", "optimize", "verify"}
        /\ failed = "repo" =>
               /\ steps = <<"metadata", "install", "target_add">>
               /\ exitCode = Some(1)

\* C3 witness: a three-component --repo reached the check and was rejected.
C3_RepoRejectedAtCheck ==
    /\ Len(Split(args.repo, "/")) = 3
    /\ failed = "repo"
    /\ exitCode = Some(1)

IsPrefix(a, b) == Len(a) <= Len(b) /\ a = SubSeq(b, 1, Len(a))

StepNames == { PipelineOrder[i] : i \in 1..Len(PipelineOrder) }

\* C4: the steps started are always a prefix of metadata, install,
\* target_add, download, extract, build, optimize, verify (order, no
\* retry); once anything has failed the process has ended with a non-zero
\* code, the failed step being the last one started; an ended process
\* takes no further step; and verification is started only with nothing
\* failed before it.
C4_ForwardOnlyFailureTerminal ==
    /\ IsPrefix(steps, PipelineOrder)
    /\ failed # "none" =>
           /\ pc = "exit"
           /\ IsSome(exitCode) /\ Unwrap(exitCode) # 0
           /\ failed \in StepNames => steps[Len(steps)] = failed
    /\ pc = "exit" => IsSome(exitCode) /\ ~ENABLED Next
    /\ pc # "exit" => failed = "none" /\ exitCode = None
    /\ Started("verify") =>
           /\ failed \in {"none", "verify"}
           /\ Len(steps) = Len(PipelineOrder)

\* C4 witness: a step in the middle of the pipeline (the build) failed
\* after the earlier ones succeeded, and the process ended there.
C4_BuildFailedMidway ==
    /\ failed = "build"
    /\ steps = SubSeq(PipelineOrder, 1, 6)
    /\ pc = "exit"
    /\ exitCode # Some(0)

ToolFailed ==
    /\ pc = "exit"
    /\ failed \in {"install", "target_add", "build", "optimize"}

ToolCode == Unwrap(status).code

IsRelease(tc) ==
    LET p == Split(tc, ".")
    IN  Len(p) = 3 /\ \A i \in 1..3 : p[i] # <<>> /\ AllDigits(p[i])

LaterThan_1_84(tc) ==
    LET p == Split(tc, ".")
        major == DecVal(p[1])
        minor == DecVal(p[2])
    IN  major > 1 \/ (major = 1 /\ minor > 84)

\* C6: for a toolchain major.minor.patch the target requested is
\* wasm32v1-none exactly when major.minor is later than 1.84 in version
\* order, and wasm32-unknown-unknown otherwise.
C6_TargetByVersionOrder ==
    (IsSome(target) /\ IsRelease(toolchain)) =>
        Unwrap(target) = IF LaterThan_1_84(toolchain)
                         THEN "wasm32v1-none"
                         ELSE "wasm32-unknown-unknown"

IsRsverItem(item) ==
    IsSome(item.meta) /\ Unwrap(item.meta).key = Some("rsver")

IsRsverString(item) == IsRsverItem(item) /\ IsSome(Unwrap(item.meta).val)

\* C7: when the installer is reached the toolchain is the value of the
\* first array item with key "rsver" and a string value; and a response
\* that is no parsable array with an "rsver" item ends the process with a
\* non-zero code, the metadata fetch being the only step started.
C7_FirstRsverOrAbort ==
    IsSome(response) =>
        LET r == Unwrap(response)
            isArray == r.ok /\ IsSome(r.body) /\ Unwrap(r.body).type = "array"
            items == Unwrap(r.body).items
        IN  /\ pc = "install" =>
                /\ isArray
                /\ toolchain # <<>>
                /\ \E i \in 1..Len(items) :
                      /\ IsRsverString(items[i])
                      /\ Unwrap(items[i].meta).val = Some(toolchain)
                      /\ \A j \in 1..(i - 1) : ~IsRsverString(items[j])
            /\ (~isArray \/ \A i \in 1..Len(items) : ~IsRsverItem(items[i]))
                   => /\ pc = "exit"
                      /\ IsSome(exitCode) /\ Unwrap(exitCode) # 0
                      /\ steps = <<"metadata">>
            /\ pc \in {"install", "exit"}

\* C7 witness: two "rsver" items with different string values, the
\* installer reached with the first one.
C7_FirstOfTwoRsver ==
    /\ pc = "install"
    /\ IsSome(response)
    /\ LET items == Unwrap(Unwrap(response).body).items
       IN  /\ Len(items) = 2
           /\ IsRsverString(items[1]) /\ IsRsverString(items[2])
           /\ items[1] # items[2]
           /\ Unwrap(items[1].meta).val = Some(toolchain)

\* C8: when unpacking left exactly one top-level directory, after the
\* Source Fetcher step every entry it held lies directly under code/, none
\* is left inside and the directory itself has been removed.
C8_WrapperNormalized ==
    (IsSome(wrapped) /\ pc # "move") =>
        /\ Unwrap(wrapped) \subseteq top
        /\ inside = {}
        /\ extracted = None

\* C9: the directory the build tool is told to write into is wasm/, the
\* directory the Optimizer and the Hash Verifier read from.
C9_BuildWritesIntoWasmDir ==
    IsSome(outDir) => Unwrap(outDir) = wasm_path

\* C10: in the report of a double mismatch the value given as the
\* unoptimized file hash is the digest of the unoptimized artifact, and the
\* value given as the optimized file hash is the digest of the optimized
\* artifact, N/A standing for a variant that was not readable.
C10_ReportAttributesDigests ==
    (Verified /\ IsSome(Unwrap(verdict).report)) =>
        LET report == Unwrap(Unwrap(verdict).report)
        IN  /\ report.unoptimized = HexOf(unopt)
            /\ report.optimized = HexOf(opt)

====
